---- MODULE Spec2Model ----
(***************************************************************************)
(* Model of the autonomous fix loop of generated_agent/agent.py and of    *)
(* the oracle call of smol_dev.py.                                         *)
(*                                                                         *)
(* Text (diagnostic output, oracle replies, file contents, paths) is a    *)
(* sequence of one-character strings, so that the regular expressions,    *)
(* str.replace, str.strip and os.path.join of the source are computed     *)
(* character by character.  TLA+ strings cannot hold the grave accent      *)
(* (U+0060), so that one character is written BT.                          *)
(***************************************************************************)
EXTENDS Integers, Sequences, FiniteSets, TLC

(***************************************************************************)
(* Constants of generated_agent/agent.py                                   *)
(***************************************************************************)
TARGET_DIR ==
    << ".", ".", "/", "t", "a", "r", "g", "e", "t", "_", "p", "r", "o",
       "j", "e", "c", "t", "/" >>

BACKUP_DIR ==
    << ".", ".", "/", "t", "a", "r", "g", "e", "t", "_", "p", "r", "o",
       "j", "e", "c", "t", "_", "b", "a", "c", "k", "u", "p", "/" >>

MAX_ATTEMPTS == 3

(***************************************************************************)
(* Text helpers                                                            *)
(***************************************************************************)
\* The grave accent character, of which markdown fences are made.
BT == "GRAVE"

\* The characters Python's \w matches (ASCII part).
WordChars ==
    { "a", "b", "c", "d", "e", "f", "g", "h", "i", "j", "k", "l", "m",
      "n", "o", "p", "q", "r", "s", "t", "u", "v", "w", "x", "y", "z",
      "A", "B", "C", "D", "E", "F", "G", "H", "I", "J", "K", "L", "M",
      "N", "O", "P", "Q", "R", "S", "T", "U", "V", "W", "X", "Y", "Z",
      "0", "1", "2", "3", "4", "5", "6", "7", "8", "9", "_" }

\* The characters str.strip() removes.
Whitespace == { " ", "\n", "\t", "\r", "\f" }

\* s[i..] starts with pat.
StartsWithAt(s, pat, i) ==
    /\ i >= 1
    /\ i + Len(pat) - 1 <= Len(s)
    /\ SubSeq(s, i, i + Len(pat) - 1) = pat

StartsWith(s, pat) == StartsWithAt(s, pat, 1)

\* s.replace(pat, ""): every non-overlapping occurrence, found left to
\* right, is removed in one pass.
RECURSIVE RemoveFrom(_, _, _)
RemoveFrom(s, pat, i) ==
    IF i > Len(s) THEN << >>
    ELSE IF StartsWithAt(s, pat, i) THEN RemoveFrom(s, pat, i + Len(pat))
    ELSE << s[i] >> \o RemoveFrom(s, pat, i + 1)

Remove(s, pat) == RemoveFrom(s, pat, 1)

\* s.replace(old, new) for one-character old and new.
ReplaceChar(s, old, new) ==
    [i \in 1..Len(s) |-> IF s[i] = old THEN new ELSE s[i]]

\* s.strip()
Strip(s) ==
    LET keep == { i \in 1..Len(s) : s[i] \notin Whitespace }
        Min(S) == CHOOSE x \in S : \A y \in S : x <= y
        Max(S) == CHOOSE x \in S : \A y \in S : x >= y
    IN  IF keep = {} THEN << >> ELSE SubSeq(s, Min(keep), Max(keep))

(***************************************************************************)
(* Path helpers (os.path)                                                  *)
(***************************************************************************)
\* The components of a path: the text between the "/" separators.
RECURSIVE SplitFrom(_, _, _)
SplitFrom(s, i, cur) ==
    IF i > Len(s) THEN << cur >>
    ELSE IF s[i] = "/" THEN << cur >> \o SplitFrom(s, i + 1, << >>)
    ELSE SplitFrom(s, i + 1, Append(cur, s[i]))

Split(s) == SplitFrom(s, 1, << >>)

IsAbsolute(p) == Len(p) >= 1 /\ p[1] = "/"

\* os.path.join(a, b): an absolute b discards a; otherwise b is appended to
\* a, with a separator unless a already ends with one.
Join(a, b) ==
    IF IsAbsolute(b) THEN b
    ELSE IF a = << >> \/ a[Len(a)] = "/" THEN a \o b
    ELSE a \o << "/" >> \o b

\* os.path.basename(p): what follows the last "/".
Basename(p) == LET c == Split(p) IN c[Len(c)]

Dot == << "." >>
DotDot == << ".", "." >>

\* The directory the agent is started in; TARGET_DIR and BACKUP_DIR are
\* relative to it.
Cwd == << << "w" >>, << "g", "e", "n", "e", "r", "a", "t", "e", "d", "_",
                        "a", "g", "e", "n", "t" >> >>

\* How the operating system resolves a list of components against the
\* components resolved so far: "" and "." are skipped, ".." leaves the
\* directory (the root is its own parent).
RECURSIVE ResolveFrom(_, _, _)
ResolveFrom(done, comps, i) ==
    IF i > Len(comps) THEN done
    ELSE IF comps[i] = << >> \/ comps[i] = Dot THEN ResolveFrom(done, comps, i + 1)
    ELSE IF comps[i] = DotDot
         THEN ResolveFrom(IF done = << >> THEN done
                         ELSE SubSeq(done, 1, Len(done) - 1), comps, i + 1)
    ELSE ResolveFrom(Append(done, comps[i]), comps, i + 1)

\* The absolute location (a sequence of names from the root) a path names.
Resolve(p) == ResolveFrom(IF IsAbsolute(p) THEN << >> ELSE Cwd, Split(p), 1)

TargetPath == Resolve(TARGET_DIR)
BackupPath == Resolve(BACKUP_DIR)

\* Location q lies inside directory d.
Under(d, q) == Len(q) > Len(d) /\ SubSeq(q, 1, Len(d)) = d

(***************************************************************************)
(* The file system: fs maps the location of every regular file to its     *)
(* content; dirs holds those of the two project directories that exist.   *)
(***************************************************************************)
\* The files of directory d, by their location relative to d.
Tree(f, d) ==
    [r \in { SubSeq(q, Len(d) + 1, Len(q)) : q \in { x \in DOMAIN f : Under(d, x) } }
        |-> f[d \o r]]

\* shutil.rmtree(d)
RmTree(f, d) == [q \in { x \in DOMAIN f : ~Under(d, x) } |-> f[q]]

\* shutil.copytree(src, dst), dst not existing
CopyTree(f, src, dst) ==
    LET t == Tree(f, src)
    IN  [q \in DOMAIN f \cup { dst \o r : r \in DOMAIN t } |->
            IF Under(dst, q) /\ SubSeq(q, Len(dst) + 1, Len(q)) \in DOMAIN t
            THEN t[SubSeq(q, Len(dst) + 1, Len(q))]
            ELSE f[q]]

\* open(path, "w").write(text)
WriteFile(f, q, text) == [x \in DOMAIN f \cup {q} |-> IF x = q THEN text ELSE f[x]]

\* os.path.exists(path), for the path of a regular file
Exists(f, p) == Resolve(p) \in DOMAIN f

(***************************************************************************)
(* generate_fix: the file the diagnostic text names                        *)
(***************************************************************************)
DotSlash == << ".", "/" >>
DotPyColon == << ".", "p", "y", ":" >>
NoMatch == [found |-> FALSE, group |-> << >>]

\* The pattern of line 79 with a greedy ".*": the match runs to the last
\* ".py:" of the line.
RelativeMatch_Greedy(text) ==
    LET Ends(i) == { j \in (i + 2)..Len(text) :
                        /\ StartsWithAt(text, DotPyColon, j)
                        /\ \A k \in (i + 2)..(j - 1) : text[k] # "\n" }
        starts == { i \in 1..Len(text) :
                        StartsWithAt(text, DotSlash, i) /\ Ends(i) # {} }
    IN  IF starts = {} THEN NoMatch
        ELSE LET i == CHOOSE x \in starts : \A y \in starts : x <= y
                 j == CHOOSE x \in Ends(i) : \A y \in Ends(i) : x >= y
             IN  [found |-> TRUE, group |-> SubSeq(text, i, j + 2)]

\* re.search(r"(\.\/.*?\.py):", text): the leftmost "./" that is followed,
\* on the same line, by ".py:"; the lazy .*? stops at the first ".py:".
RelativeMatch(text) ==
    LET Ends(i) == { j \in (i + 2)..Len(text) :
                        /\ StartsWithAt(text, DotPyColon, j)
                        /\ \A k \in (i + 2)..(j - 1) : text[k] # "\n" }
        starts == { i \in 1..Len(text) :
                        StartsWithAt(text, DotSlash, i) /\ Ends(i) # {} }
    IN  IF starts = {} THEN NoMatch
        ELSE LET i == CHOOSE x \in starts : \A y \in starts : x <= y
                 j == CHOOSE x \in Ends(i) : \A y \in Ends(i) : x <= y
             IN  [found |-> TRUE, group |-> SubSeq(text, i, j + 2)]

\* The character class [\w\/\\]
PathChars == WordChars \cup { "/", "\\" }

\* re.search(r"([\w\/\\]+\.py):", text): the leftmost run of path
\* characters that ends right before ".py:" ("." is no path character, so
\* the greedy run can end nowhere else).
FallbackMatch(text) ==
    LET RunEnd(i) == CHOOSE k \in (i + 1)..(Len(text) + 1) :
                        /\ \A m \in i..(k - 1) : text[m] \in PathChars
                        /\ (k = Len(text) + 1 \/ text[k] \notin PathChars)
        starts == { i \in 1..Len(text) :
                        /\ text[i] \in PathChars
                        /\ StartsWithAt(text, DotPyColon, RunEnd(i)) }
    IN  IF starts = {} THEN NoMatch
        ELSE LET i == CHOOSE x \in starts : \A y \in starts : x <= y
             IN  [found |-> TRUE, group |-> SubSeq(text, i, RunEnd(i) + 2)]

\* Lines 79-91: the path generate_fix reads from the diagnostic text.
ExtractPath(stderr) ==
    LET first == RelativeMatch(stderr)
        match == IF first.found THEN first ELSE FallbackMatch(stderr)
        slashed == ReplaceChar(match.group, "\\", "/")
    IN  IF ~match.found THEN [found |-> FALSE, path |-> << >>]
        ELSE [found |-> TRUE,
              path |-> IF StartsWith(slashed, DotSlash)
                       THEN SubSeq(slashed, 3, Len(slashed))
                       ELSE slashed]

\* Lines 97-103: the files os.walk(TARGET_DIR) can find first under a base
\* name.  The walk is top-down, so a directory is visited before its
\* subdirectories; the order among sibling directories is the operating
\* system's, so any match with no match in a directory above it can be first.
WalkFinds(f, name) ==
    LET matches == { q \in DOMAIN f : Under(TargetPath, q) /\ q[Len(q)] = name }
        Dir(q) == SubSeq(q, 1, Len(q) - 1)
    IN  { q \in matches :
            ~\E o \in matches : o # q /\ Under(Dir(o), q) /\ Dir(o) # Dir(q) }

\* Lines 93-110: the locations full_file_path can name; none when the file
\* is not found.
LocateFile(f, dirSet, path) ==
    LET full_file_path == Join(TARGET_DIR, path)
    IN  IF Exists(f, full_file_path) THEN { Resolve(full_file_path) }
        ELSE IF TargetPath \in dirSet THEN WalkFinds(f, Basename(full_file_path))
        ELSE {}

\* Line 142: the oracle's reply with the fence markers removed, stripped.
FencePython == << BT, BT, BT, "p", "y", "t", "h", "o", "n" >>
Fence == << BT, BT, BT >>
\* Line 142 without its second replace: only the opening marker is removed.
StripFences_PythonOnly(reply) == Strip(Remove(reply, FencePython))

StripFences(reply) == Strip(Remove(Remove(reply, FencePython), Fence))

(***************************************************************************)
(* The environment of a run: the project, a library file outside it, the  *)
(* outputs the test runner can produce and the replies of the oracle.     *)
(***************************************************************************)
Original == << "v", "0" >>
Stale == << "o", "l", "d" >>
Library == << "l", "i", "b" >>

FileA == << "a", ".", "p", "y" >>
FileMod == << "m", "o", "d", ".", "p", "y" >>
DirPkg == << "p", "k", "g" >>
LibraryFile == << << "o", "p", "t" >>, << "l", "i", "b" >>,
                  << "e", "x", "t", ".", "p", "y" >> >>

\* The project before the run: a.py, pkg/a.py and pkg/mod.py, and ext.py
\* outside it.
ProjectFiles ==
    (TargetPath \o << FileA >>) :> Original
    @@ (TargetPath \o << DirPkg, FileA >>) :> Original
    @@ (TargetPath \o << DirPkg, FileMod >>) :> Original
    @@ LibraryFile :> Library

\* The backup an earlier run left behind.
StaleBackup == (BackupPath \o << FileA >>) :> Stale

DiagRel ==
    << ".", "/", "a", ".", "p", "y", ":", "3", ":", " ", "A", "s", "s",
       "e", "r", "t", "i", "o", "n", "E", "r", "r", "o", "r" >>
DiagParent ==
    << ".", ".", "/", "t", "a", "r", "g", "e", "t", "_", "p", "r", "o",
       "j", "e", "c", "t", "/", "p", "k", "g", "/", "a", ".", "p", "y",
       ":", "1", "2", ":", " ", "i", "n", " ", "f" >>
DiagNoPath ==
    << "E", " ", " ", " ", "a", "s", "s", "e", "r", "t", " ", "1", " ",
       "=", "=", " ", "2" >>
DiagMissing ==
    << ".", "/", "z", "z", ".", "p", "y", ":", "1", ":", " ", "N", "a",
       "m", "e", "E", "r", "r", "o", "r" >>
DiagAbsolute ==
    << "/", "o", "p", "t", "/", "l", "i", "b", "/", "e", "x", "t", ".",
       "p", "y", ":", "7", ":", " ", "i", "n", " ", "g" >>
DiagPartial ==
    << "t", "e", "s", "t", "s", "/", "m", "o", "d", ".", "p", "y", ":",
       "5", ":", " ", "i", "n", " ", "h" >>
DiagBackup ==
    << ".", "/", ".", ".", "/", "t", "a", "r", "g", "e", "t", "_", "p",
       "r", "o", "j", "e", "c", "t", "_", "b", "a", "c", "k", "u", "p",
       "/", "a", ".", "p", "y", ":", "1", ":", " ", "E" >>

\* What a failing test run can leave on its two streams (pytest reports on
\* standard output; DiagRel is also seen on the error stream).
FailingOutputs ==
    { [stderr |-> DiagRel, stdout |-> DiagNoPath] }
    \cup { [stderr |-> << >>, stdout |-> d] :
             d \in { DiagParent, DiagNoPath, DiagMissing, DiagAbsolute,
                     DiagPartial, DiagBackup } }

ReplyFenced ==
    << BT, BT, BT, "p", "y", "t", "h", "o", "n", "\n", "f", "1", "\n",
       BT, BT, BT >>
ReplyRaw == << "f", "2" >>
ReplyOnlyFence ==
    << BT, BT, BT, "p", "y", "t", "h", "o", "n", "\n", BT, BT, BT >>
ReplyBlank == << " ", "\n" >>

OracleReplies == { ReplyFenced, ReplyRaw, ReplyOnlyFence, ReplyBlank }

(***************************************************************************)
(* State of a run of main()                                                *)
(***************************************************************************)
VARIABLES
    pc,           \* where main() is: "backup", "test", "generate", "check",
                  \* "done" (main returned), "raised" (an exception left main)
    attempt,      \* the loop variable of line 171
    fs,           \* the files
    dirs,         \* the project directories that exist
    test_result,  \* the result of the last run_tests()
    file_path,    \* what generate_fix returned: the location to overwrite
    fixed_code,   \* and the text to write there
    log,          \* history: the external operations performed, in order
    snapshot,     \* history: the target tree as the initial backup copied it
    fixes         \* history: the fixes written, in order

agent_vars == << pc, attempt, fs, dirs, test_result, file_path, fixed_code,
                 log, snapshot, fixes >>

(***************************************************************************)
(* State of a run of smol_dev.py's generate_agent_code                     *)
(***************************************************************************)
VARIABLES
    gen_pc,       \* "call" (in the loop), "returned", "exited" (sys.exit(1)),
                  \* "raised" (an exception left the function); then, in
                  \* main(), "saved" or "save_failed" (sys.exit(1))
    gen_attempt,  \* the loop variable of line 98
    gen_code,     \* the code returned to the caller
    gen_log,      \* history: oracle calls, sleeps and saves, in order
    agent_file    \* the generated agent file: whether it exists, its text

gen_vars == << gen_pc, gen_attempt, gen_code, gen_log, agent_file >>

(***************************************************************************)
(* State of one application of a text function of agent.py: the path       *)
(* extraction of lines 79-91, or the cleaning of the reply of line 142     *)
(***************************************************************************)
VARIABLES
    text_pc,      \* "idle", "extract" then "extracted", "clean" then "cleaned"
    text_in,      \* the argument: a diagnostic text, or the oracle's reply
    text_out      \* the value computed from it

text_vars == << text_pc, text_in, text_out >>

(***************************************************************************)
(* State of one request to app.py's correct_code                           *)
(***************************************************************************)
VARIABLES
    web_pc,       \* "idle"; "read", "validate", "call", "reply": the line
                  \* of correct_code to run next; "answered"
    request,      \* the body of the POST request
    data,         \* request.json
    response,     \* what generate_content returned: the oracle's text
    answer,       \* what correct_code returns: status and JSON body
    oracle_calls  \* history: the calls of generate_content made

web_vars == << web_pc, request, data, response, answer, oracle_calls >>

vars == << agent_vars, gen_vars, text_vars, web_vars >>

\* What a run of one part leaves alone.
outside_agent == << gen_vars, text_vars, web_vars >>
outside_gen == << agent_vars, text_vars, web_vars >>
outside_text == << agent_vars, gen_vars, web_vars >>
outside_web == << agent_vars, gen_vars, text_vars >>

None == << >>
NoResult == [returncode |-> -1, stderr |-> << >>, stdout |-> << >>]

Event(op, res) == [op |-> op, attempt |-> attempt + 1, res |-> res]

GenInit ==
    /\ gen_pc = "call"
    /\ gen_attempt = 0
    /\ gen_code = None
    /\ gen_log = << >>
    /\ agent_file = [exists |-> FALSE, text |-> << >>]

TextIdle ==
    /\ text_pc = "idle"
    /\ text_in = << >>
    /\ text_out = << >>

\* A JSON value as correct_code sees it: its type, the names n for which
\* "n in data" holds, its length, and for an object the values of the keys
\* code and prompt ("" when absent).
Json(t, members, len, code, prompt) ==
    [t |-> t, members |-> members, len |-> len, code |-> code,
     prompt |-> prompt]
JsonNull == Json("null", {}, 0, "", "")

NoAnswer == [status |-> 0, kind |-> "none", text |-> ""]

WebIdle ==
    /\ web_pc = "idle"
    /\ request = [kind |-> "none", value |-> JsonNull]
    /\ data = JsonNull
    /\ response = ""
    /\ answer = NoAnswer
    /\ oracle_calls = 0

AgentInit ==
    /\ pc = "backup"
    /\ attempt = 0
    /\ \E old \in { << >>, StaleBackup } :
          /\ fs = ProjectFiles @@ old
          /\ dirs = { TargetPath } \cup (IF old = << >> THEN {} ELSE { BackupPath })
    /\ test_result = NoResult
    /\ file_path = None
    /\ fixed_code = None
    /\ log = << >>
    /\ snapshot = << >>
    /\ fixes = << >>

Init == AgentInit /\ GenInit /\ TextIdle /\ WebIdle

(***************************************************************************)
(* backup_project and restore_project                                      *)
(***************************************************************************)
\* Lines 32-41.  outcome: "ok", or the call that raises IOError.
backup_project(f, ds, outcome) ==
    IF outcome = "rmtree_error"
    THEN [fs |-> f, dirs |-> ds, res |-> "error"]
    ELSE IF outcome = "copytree_error"
    THEN [fs |-> RmTree(f, BackupPath), dirs |-> ds \ { BackupPath },
          res |-> "error"]
    ELSE [fs |-> CopyTree(RmTree(f, BackupPath), TargetPath, BackupPath),
          dirs |-> ds \cup { BackupPath }, res |-> "ok"]

\* Lines 44-56.  Without a backup directory the restore is skipped.
restore_project(f, ds, outcome) ==
    IF BackupPath \notin ds
    THEN [fs |-> f, dirs |-> ds, res |-> "skipped"]
    ELSE IF outcome = "rmtree_error"
    THEN [fs |-> f, dirs |-> ds, res |-> "error"]
    ELSE IF outcome = "copytree_error"
    THEN [fs |-> RmTree(f, TargetPath), dirs |-> ds \ { TargetPath },
          res |-> "error"]
    ELSE [fs |-> CopyTree(RmTree(f, TargetPath), BackupPath, TargetPath),
          dirs |-> ds \cup { TargetPath }, res |-> "ok"]

\* The outcomes of the copy: rmtree can only fail on a directory that exists.
CopyOutcomes(ds, removed) ==
    { "ok", "copytree_error" }
    \cup (IF removed \in ds THEN { "rmtree_error" } ELSE {})

(***************************************************************************)
(* generate_fix                                                            *)
(***************************************************************************)
\* Lines 76-148.  env is what the environment answers: pick, the file the
\* walk finds first; readable, whether open/read succeeds; oracle, the
\* outcome of model.generate_content.  The result is the pair the function
\* returns, with the operations performed on the way and, last, how the
\* call ended.
generate_fix(f, ds, stderr, env) ==
    LET found == ExtractPath(stderr)
        failed(events, why) ==
            [file_path |-> None, fixed_code |-> None,
             events |-> Append(events, Event("generate", why))]
    IN  IF ~found.found THEN failed(<< >>, "no_path")
        ELSE IF LocateFile(f, ds, found.path) = {}
             THEN failed(<< >>, "not_found")
        ELSE IF ~env.readable
             THEN failed(<< Event("read", "error") >>, "unreadable")
        ELSE IF env.oracle.error
             THEN failed(<< Event("read", "ok"), Event("oracle", "error") >>,
                         "oracle_error")
        ELSE LET code == StripFences(env.oracle.text)
             IN  [file_path |-> env.pick,
                  fixed_code |-> code,
                  events |-> << Event("read", "ok"), Event("oracle", "reply"),
                                Event("generate",
                                      IF code = << >> THEN "empty"
                                      ELSE "ok") >>]

\* What the oracle can answer: an error, or one of the replies.
OracleOutcomes ==
    { [error |-> TRUE, text |-> << >>] }
    \cup { [error |-> FALSE, text |-> t] : t \in OracleReplies }

\* Lines 186-188: the error stream, or standard output when it is empty.
Diagnostic(result) ==
    IF result.stderr = << >> THEN result.stdout ELSE result.stderr

(***************************************************************************)
(* main                                                                    *)
(***************************************************************************)
\* BackupProject without the return of line 168: the loop is entered after
\* a failed backup.
BackupProject_NoReturn ==
    /\ pc = "backup"
    /\ UNCHANGED outside_agent
    /\ \E o \in CopyOutcomes(dirs, BackupPath) :
          LET r == backup_project(fs, dirs, o)
          IN  /\ fs' = r.fs
              /\ dirs' = r.dirs
              /\ log' = Append(log, Event("backup", r.res))
              /\ pc' = "test"
              /\ snapshot' = IF r.res = "ok" THEN Tree(fs, TargetPath)
                             ELSE snapshot
    /\ UNCHANGED << attempt, test_result, file_path, fixed_code, fixes >>

\* Lines 164-168: the initial backup; main returns when it fails.
BackupProject ==
    /\ pc = "backup"
    /\ UNCHANGED outside_agent
    /\ \E o \in CopyOutcomes(dirs, BackupPath) :
          LET r == backup_project(fs, dirs, o)
          IN  /\ fs' = r.fs
              /\ dirs' = r.dirs
              /\ log' = Append(log, Event("backup", r.res))
              /\ pc' = IF r.res = "ok" THEN "test" ELSE "done"
              /\ snapshot' = IF r.res = "ok" THEN Tree(fs, TargetPath)
                             ELSE snapshot
    /\ UNCHANGED << attempt, test_result, file_path, fixed_code, fixes >>

\* TestsPass without the break of line 183: a fix is generated all the same.
TestsPass_NoBreak ==
    /\ pc = "test"
    /\ UNCHANGED outside_agent
    /\ test_result' = [returncode |-> 0, stderr |-> << >>, stdout |-> << >>]
    /\ log' = Append(log, Event("test", "pass"))
    /\ pc' = "generate"
    /\ UNCHANGED << attempt, fs, dirs, file_path, fixed_code, snapshot,
                    fixes >>

\* Lines 175, 181-183: the test run passes; the loop is left by break.
TestsPass ==
    /\ pc = "test"
    /\ UNCHANGED outside_agent
    /\ test_result' = [returncode |-> 0, stderr |-> << >>, stdout |-> << >>]
    /\ log' = Append(log, Event("test", "pass"))
    /\ pc' = "done"
    /\ UNCHANGED << attempt, fs, dirs, file_path, fixed_code, snapshot,
                    fixes >>

\* Lines 175, 181, 185: the test run fails.
TestsFail ==
    /\ pc = "test"
    /\ UNCHANGED outside_agent
    /\ \E out \in FailingOutputs :
          test_result' = [returncode |-> 1, stderr |-> out.stderr,
                          stdout |-> out.stdout]
    /\ log' = Append(log, Event("test", "fail"))
    /\ pc' = "generate"
    /\ UNCHANGED << attempt, fs, dirs, file_path, fixed_code, snapshot,
                    fixes >>

\* Lines 63-73, 174-179: the runner cannot be started.  subprocess.run
\* raises OSError then; with check=False it never raises
\* CalledProcessError, the one exception run_tests and main handle, so the
\* handler of lines 176-179 is never entered and the exception leaves main.
TestsCannotStart ==
    /\ pc = "test"
    /\ UNCHANGED outside_agent
    /\ log' = Append(log, Event("test", "raise"))
    /\ pc' = "raised"
    /\ UNCHANGED << attempt, fs, dirs, test_result, file_path, fixed_code,
                    snapshot, fixes >>

\* Lines 185-190: the call of generate_fix.
GenerateFix ==
    /\ pc = "generate"
    /\ UNCHANGED outside_agent
    /\ LET stderr == Diagnostic(test_result)
           found == ExtractPath(stderr)
           cands == IF found.found THEN LocateFile(fs, dirs, found.path)
                    ELSE {}
       IN  \E pick \in (IF cands = {} THEN { None } ELSE cands),
              readable \in BOOLEAN, oracle \in OracleOutcomes :
              LET r == generate_fix(fs, dirs, stderr,
                          [pick |-> pick, readable |-> readable,
                           oracle |-> oracle])
              IN  /\ file_path' = r.file_path
                  /\ fixed_code' = r.fixed_code
                  /\ log' = log \o r.events
    /\ pc' = "check"
    /\ UNCHANGED << attempt, fs, dirs, test_result, snapshot, fixes >>

\* restore_project() followed by leaving the loop, after the operations
\* events on file system f.
RestoreAndStop(f, events) ==
    \E o \in CopyOutcomes(dirs, TargetPath) :
        LET r == restore_project(f, dirs, o)
        IN  /\ fs' = r.fs
            /\ dirs' = r.dirs
            /\ log' = log \o events \o << Event("restore", r.res) >>
            /\ pc' = IF r.res = "error" THEN "raised" ELSE "done"

\* Line 192 testing the path alone: an empty fix is applied.
FixMissing_PathOnly == file_path = None

\* Line 192: not file_path or not fixed_code
FixMissing == file_path = None \/ fixed_code = None

\* Lines 192-195: no fix was generated.
FailedToGenerate ==
    /\ pc = "check"
    /\ UNCHANGED outside_agent
    /\ FixMissing
    /\ RestoreAndStop(fs, << >>)
    /\ UNCHANGED << attempt, test_result, file_path, fixed_code, snapshot,
                    fixes >>

\* Lines 151-159: open(file_path, "w") truncates the file, write fills it.
apply_fix(f, path, text, outcome) ==
    IF outcome = "open_error" THEN [fs |-> f, res |-> "error"]
    ELSE IF outcome = "write_error"
    THEN [fs |-> WriteFile(f, path, << >>), res |-> "error"]
    ELSE [fs |-> WriteFile(f, path, text), res |-> "ok"]

\* Line 204: attempt == MAX_ATTEMPTS - 1
MaxReached == attempt = MAX_ATTEMPTS - 1

\* Line 171 with one iteration too many.
LoopContinues_OneMore == attempt + 1 <= MAX_ATTEMPTS

\* Line 171: range(MAX_ATTEMPTS) has a value after the current one.
LoopContinues == attempt + 1 < MAX_ATTEMPTS

\* ApplyFix with the next iteration starting at line 190: the next fix is
\* asked for without a test run.
ApplyFix_SkipsTests ==
    /\ pc = "check"
    /\ UNCHANGED outside_agent
    /\ ~FixMissing
    /\ LET w == apply_fix(fs, file_path, fixed_code, "ok")
           written == << Event("write", "ok") >>
       IN  \E o \in CopyOutcomes(dirs, TargetPath) :
              LET r == IF MaxReached THEN restore_project(w.fs, dirs, o)
                       ELSE [fs |-> w.fs, dirs |-> dirs, res |-> "none"]
              IN  /\ fs' = r.fs
                  /\ dirs' = r.dirs
                  /\ log' = IF MaxReached
                            THEN log \o written \o << Event("restore", r.res) >>
                            ELSE log \o written
                  /\ IF r.res = "error"
                     THEN pc' = "raised" /\ UNCHANGED attempt
                     ELSE IF LoopContinues
                     THEN pc' = "generate" /\ attempt' = attempt + 1
                     ELSE pc' = "done" /\ UNCHANGED attempt
    /\ fixes' = Append(fixes, [path |-> file_path, text |-> fixed_code])
    /\ UNCHANGED << test_result, file_path, fixed_code, snapshot >>

\* Lines 197-208: the fix is written; after the final attempt the project
\* is restored; then the loop goes on to its next iteration, or ends.
ApplyFix ==
    /\ pc = "check"
    /\ UNCHANGED outside_agent
    /\ ~FixMissing
    /\ LET w == apply_fix(fs, file_path, fixed_code, "ok")
           written == << Event("write", "ok") >>
       IN  \E o \in CopyOutcomes(dirs, TargetPath) :
              LET r == IF MaxReached THEN restore_project(w.fs, dirs, o)
                       ELSE [fs |-> w.fs, dirs |-> dirs, res |-> "none"]
              IN  /\ fs' = r.fs
                  /\ dirs' = r.dirs
                  /\ log' = IF MaxReached
                            THEN log \o written \o << Event("restore", r.res) >>
                            ELSE log \o written
                  /\ IF r.res = "error"
                     THEN pc' = "raised" /\ UNCHANGED attempt
                     ELSE IF LoopContinues
                     THEN pc' = "test" /\ attempt' = attempt + 1
                     ELSE pc' = "done" /\ UNCHANGED attempt
    /\ fixes' = Append(fixes, [path |-> file_path, text |-> fixed_code])
    /\ UNCHANGED << test_result, file_path, fixed_code, snapshot >>

\* ApplyFixFails without the restore of line 201: the loop is just left.
ApplyFixFails_NoRestore ==
    /\ pc = "check"
    /\ UNCHANGED outside_agent
    /\ ~FixMissing
    /\ \E o \in { "open_error", "write_error" } :
          fs' = apply_fix(fs, file_path, fixed_code, o).fs
    /\ log' = Append(log, Event("write", "error"))
    /\ pc' = "done"
    /\ UNCHANGED << attempt, dirs, test_result, file_path, fixed_code,
                    snapshot, fixes >>

\* Lines 197-202: the fix cannot be written.
ApplyFixFails ==
    /\ pc = "check"
    /\ UNCHANGED outside_agent
    /\ ~FixMissing
    /\ \E o \in { "open_error", "write_error" } :
          RestoreAndStop(apply_fix(fs, file_path, fixed_code, o).fs,
                         << Event("write", "error") >>)
    /\ UNCHANGED << attempt, test_result, file_path, fixed_code, snapshot,
                    fixes >>

Next ==
    \/ BackupProject
    \/ TestsPass
    \/ TestsFail
    \/ TestsCannotStart
    \/ GenerateFix
    \/ FailedToGenerate
    \/ ApplyFix
    \/ ApplyFixFails

Spec == Init /\ [][Next]_vars

(***************************************************************************)
(* Properties of main()                                                    *)
(***************************************************************************)
Count(op) == Cardinality({ i \in DOMAIN log : log[i].op = op })
Has(op, res) == \E i \in DOMAIN log : log[i].op = op /\ log[i].res = res
Terminated == pc \in { "done", "raised" }
TargetTree == Tree(fs, TargetPath)
BackupTree == Tree(fs, BackupPath)

\* The tree with the fixes written inside the target directory applied in
\* order (a fix written elsewhere leaves the tree as it is).
RECURSIVE ApplyAll(_, _)
ApplyAll(tree, fs_) ==
    IF fs_ = << >> THEN tree
    ELSE LET fix == Head(fs_)
             rel == SubSeq(fix.path, Len(TargetPath) + 1, Len(fix.path))
         IN  ApplyAll(IF Under(TargetPath, fix.path)
                      THEN WriteFile(tree, rel, fix.text)
                      ELSE tree,
                      Tail(fs_))

\* C1: a run whose initial backup succeeded (and whose restore, if any,
\* did not itself raise) ends either with the last test run passing or
\* with the target tree identical to the snapshot of the initial backup.
C1_PassOrRestored ==
    (Terminated /\ Has("backup", "ok") /\ ~Has("restore", "error"))
        => (test_result.returncode = 0 \/ TargetTree = snapshot)

\* C2: a test run that cannot be started is followed by a restore of the
\* target tree from the backup.
C2_RunnerFailureRestores ==
    \A i \in DOMAIN log :
        (log[i].op = "test" /\ log[i].res = "raise")
            => (i < Len(log) /\ log[i + 1].op = "restore")

\* C3: a run makes at most MAX_ATTEMPTS test runs, and so at most
\* MAX_ATTEMPTS oracle calls and at most MAX_ATTEMPTS writes.
C3_BoundedAttempts ==
    /\ Count("test") <= MAX_ATTEMPTS
    /\ Count("oracle") <= MAX_ATTEMPTS
    /\ Count("write") <= MAX_ATTEMPTS

C3_Witness ==
    /\ Terminated
    /\ Count("test") = MAX_ATTEMPTS
    /\ Count("oracle") = MAX_ATTEMPTS
    /\ Len(fixes) = MAX_ATTEMPTS

\* C4: when the first test run passes the run ends there: nothing was
\* read, asked of the oracle, written or restored, and the target tree and
\* the backup are as the initial backup left them.
C4_EarlyExit ==
    (Len(log) >= 2 /\ log[2].op = "test" /\ log[2].res = "pass")
        => /\ Len(log) = 2
           /\ pc = "done"
           /\ fixes = << >>
           /\ TargetTree = snapshot
           /\ BackupPath \in dirs
           /\ BackupTree = snapshot
           /\ RmTree(RmTree(fs, TargetPath), BackupPath)
                = RmTree(RmTree(ProjectFiles, TargetPath), BackupPath)

C4_Witness ==
    /\ pc = "done"
    /\ Len(log) = 2
    /\ log[1].op = "backup" /\ log[1].res = "ok"
    /\ log[2].op = "test" /\ log[2].res = "pass"

\* C5: when the initial backup cannot be made main ends at once: no test
\* run, no oracle call, no write and no restore, and the target tree is
\* untouched.
C5_BackupFailureIsFatal ==
    (Len(log) >= 1 /\ log[1].op = "backup" /\ log[1].res = "error")
        => /\ Len(log) = 1
           /\ pc = "done"
           /\ fixes = << >>
           /\ TargetTree = Tree(ProjectFiles, TargetPath)

C5_Witness ==
    /\ pc = "done"
    /\ Len(log) = 1
    /\ log[1].op = "backup" /\ log[1].res = "error"

\* C6: when generate_fix fails in an attempt (no path in the diagnostic
\* text, file not found, file unreadable, oracle error, reply empty once
\* stripped), nothing is written in that attempt and the one thing that
\* follows is a single restore from the backup, after which main is over;
\* if that restore did not raise, the target tree equals the backup.
C6_GenerationFailureStops ==
    \A i \in DOMAIN log :
        (log[i].op = "generate" /\ log[i].res # "ok")
            => /\ \A j \in DOMAIN log :
                     log[j].op = "write" => log[j].attempt # log[i].attempt
               /\ IF pc = "check"
                  THEN /\ i = Len(log)
                       /\ Count("restore") = 0
                       /\ ENABLED FailedToGenerate
                       /\ ~ENABLED ApplyFix
                       /\ ~ENABLED ApplyFixFails
                  ELSE /\ Terminated
                       /\ Len(log) = i + 1
                       /\ log[i + 1].op = "restore"
                       /\ log[i + 1].res \in { "ok", "error" }
                       /\ Count("restore") = 1
                       /\ log[i + 1].res = "ok" => TargetTree = BackupTree

C6_Witness ==
    /\ pc = "done"
    /\ fixes # << >>
    /\ Has("generate", "empty")
    /\ log[Len(log)].op = "restore" /\ log[Len(log)].res = "ok"
    /\ TargetTree = snapshot

\* C7: a failed write of the fix is followed at once by a restore from the
\* backup, after which main is over: no further test run or oracle call;
\* if that restore did not raise, the target tree equals the backup.
C7_WriteFailureStops ==
    \A i \in DOMAIN log :
        (log[i].op = "write" /\ log[i].res = "error")
            => /\ Terminated
               /\ Len(log) = i + 1
               /\ log[i + 1].op = "restore"
               /\ log[i + 1].res \in { "ok", "error" }
               /\ log[i + 1].res = "ok" => TargetTree = BackupTree

C7_Witness ==
    /\ pc = "done"
    /\ fixes # << >>
    /\ Has("write", "error")
    /\ log[Len(log)].op = "restore" /\ log[Len(log)].res = "ok"
    /\ TargetTree = snapshot

\* C8: when the test run of attempt MAX_ATTEMPTS fails, the target tree is
\* restored before main ends and (the restore not having raised) equals the
\* snapshot of the initial backup.
C8_ExhaustionRestoresSnapshot ==
    (/\ Terminated
     /\ \E i \in DOMAIN log :
           log[i].op = "test" /\ log[i].res = "fail"
           /\ log[i].attempt = MAX_ATTEMPTS
     /\ ~Has("restore", "error"))
        => (Has("restore", "ok") /\ TargetTree = snapshot)

\* C9: a run that ends with a passing test run has performed no restore,
\* its target tree is the snapshot with the fixes of the earlier attempts
\* applied, and the backup directory exists with the content the initial
\* backup gave it.
C9_SuccessKeepsFixesAndBackup ==
    (pc = "done" /\ test_result.returncode = 0)
        => /\ Count("restore") = 0
           /\ TargetTree = ApplyAll(snapshot, fixes)
           /\ BackupPath \in dirs
           /\ BackupTree = snapshot

(***************************************************************************)
(* smol_dev.py: sanitize_python_code and generate_agent_code               *)
(***************************************************************************)
\* The first position from i on where pat occurs in s; 0 when there is none.
FindFrom(s, pat, i) ==
    LET hits == { j \in i..Len(s) : StartsWithAt(s, pat, j) }
    IN  IF hits = {} THEN 0
        ELSE CHOOSE j \in hits : \A k \in hits : j <= k

\* Where a greedy \s* that starts at i ends.
SkipSpace(s, i) ==
    CHOOSE k \in i..(Len(s) + 1) :
        /\ \A m \in i..(k - 1) : s[m] \in Whitespace
        /\ (k = Len(s) + 1 \/ s[k] \notin Whitespace)

\* re.search(open \s*(.*?)\s*```, text, re.DOTALL) for a literal open: the
\* first open, the white space after it skipped, the lazy group up to the
\* white space before the next fence.
FencedBlock(text, open) ==
    LET i == FindFrom(text, open, 1)
        k == SkipSpace(text, i + Len(open))
        c == FindFrom(text, Fence, k)
        j == CHOOSE x \in k..c :
                /\ \A m \in x..(c - 1) : text[m] \in Whitespace
                /\ (x = k \/ text[x - 1] \notin Whitespace)
    IN  IF i = 0 THEN NoMatch
        ELSE IF c = 0 THEN NoMatch
        ELSE [found |-> TRUE, group |-> SubSeq(text, k, j - 1)]

\* Lines 55-76.  None and "" are both written << >>.
sanitize_python_code(response_text) ==
    IF response_text = None THEN None
    ELSE IF FencedBlock(response_text, FencePython).found
    THEN Strip(FencedBlock(response_text, FencePython).group)
    ELSE IF FencedBlock(response_text, Fence).found
    THEN Strip(FencedBlock(response_text, Fence).group)
    ELSE Strip(response_text)

\* Line 98: range(3)
GEN_ATTEMPTS == 3

ReplyGeneric ==
    << "s", "e", "e", ":", "\n", BT, BT, BT, "\n", "f", "3", "\n", BT, BT,
       BT >>

\* What model.generate_content / response.text can do in one call: a reply
\* (its text possibly missing), ResourceExhausted, another GoogleAPIError,
\* or any other exception.
GenOutcomes ==
    { [kind |-> "reply", text |-> t] :
        t \in { ReplyFenced, ReplyRaw, ReplyGeneric, ReplyOnlyFence,
                ReplyBlank, None } }
    \cup { [kind |-> k, text |-> None] :
             k \in { "resource_exhausted", "api_error", "exception" } }

\* Handler without the except clause of lines 112-114: a GoogleAPIError
\* other than ResourceExhausted leaves the function.
Handler_PermanentPropagates(kind) ==
    IF kind = "resource_exhausted" THEN [seconds |-> 30, propagate |-> FALSE]
    ELSE IF kind = "api_error" THEN [seconds |-> 0, propagate |-> TRUE]
    ELSE [seconds |-> 5, propagate |-> FALSE]

\* Lines 108-118: what the except clauses do with an error of the call:
\* the seconds slept, and whether the error leaves the function.
Handler(kind) ==
    IF kind = "resource_exhausted" THEN [seconds |-> 30, propagate |-> FALSE]
    ELSE IF kind = "api_error" THEN [seconds |-> 10, propagate |-> FALSE]
    ELSE [seconds |-> 5, propagate |-> FALSE]

GenEvent(op, res, seconds) ==
    [op |-> op, attempt |-> gen_attempt + 1, res |-> res,
     seconds |-> seconds]

\* Lines 98, 120-121: the next iteration, or sys.exit(1) after the last.
GenNextIteration ==
    IF gen_attempt + 1 < GEN_ATTEMPTS
    THEN gen_pc' = "call" /\ gen_attempt' = gen_attempt + 1
    ELSE gen_pc' = "exited" /\ UNCHANGED gen_attempt

\* GenReturns without the test of line 105: whatever sanitize_python_code
\* gives is returned.
GenReturns_AnyReply ==
    /\ gen_pc = "call"
    /\ \E o \in GenOutcomes :
          /\ o.kind = "reply"
          /\ gen_code' = sanitize_python_code(o.text)
          /\ gen_log' = Append(gen_log, GenEvent("oracle", "code", 0))
    /\ gen_pc' = "returned"
    /\ UNCHANGED << gen_attempt, agent_file, outside_gen >>

\* Lines 99-106: the oracle answers and the sanitized code is not empty.
GenReturns ==
    /\ gen_pc = "call"
    /\ \E o \in GenOutcomes :
          /\ o.kind = "reply"
          /\ sanitize_python_code(o.text) # None
          /\ gen_code' = sanitize_python_code(o.text)
          /\ gen_log' = Append(gen_log, GenEvent("oracle", "code", 0))
    /\ gen_pc' = "returned"
    /\ UNCHANGED << gen_attempt, agent_file, outside_gen >>

\* Lines 99-105: the oracle answers and no code is left; the loop goes on
\* without a delay.
GenEmptyReply ==
    /\ gen_pc = "call"
    /\ \E o \in GenOutcomes :
          /\ o.kind = "reply"
          /\ sanitize_python_code(o.text) = None
    /\ gen_log' = Append(gen_log, GenEvent("oracle", "empty", 0))
    /\ GenNextIteration
    /\ UNCHANGED << gen_code, agent_file, outside_gen >>

\* Lines 108-118: the call raises.
GenOracleError ==
    /\ gen_pc = "call"
    /\ \E o \in GenOutcomes :
          /\ o.kind # "reply"
          /\ IF Handler(o.kind).propagate
             THEN /\ gen_log' = Append(gen_log, GenEvent("oracle", o.kind, 0))
                  /\ gen_pc' = "raised"
                  /\ UNCHANGED gen_attempt
             ELSE /\ gen_log' = gen_log \o
                        << GenEvent("oracle", o.kind, 0),
                           GenEvent("sleep", o.kind, Handler(o.kind).seconds) >>
                  /\ GenNextIteration
    /\ UNCHANGED << gen_code, agent_file, outside_gen >>

\* Lines 124-132: makedirs, open(output_path, "w"), which empties the
\* file, and write.  outcome: "ok", or the call that raises IOError.
save_agent_code(file, code, outcome) ==
    IF outcome = "open_error" THEN file
    ELSE IF outcome = "write_error" THEN [exists |-> TRUE, text |-> << >>]
    ELSE [exists |-> TRUE, text |-> code]

\* Lines 145-157: main() saves the code generate_agent_code returned; an
\* IOError ends the process with status 1.
SaveAgentCode ==
    /\ gen_pc = "returned"
    /\ \E outcome \in { "ok", "open_error", "write_error" } :
          /\ agent_file' = save_agent_code(agent_file, gen_code, outcome)
          /\ gen_log' = Append(gen_log,
                  GenEvent("save", IF outcome = "ok" THEN "ok" ELSE "error", 0))
          /\ gen_pc' = IF outcome = "ok" THEN "saved" ELSE "save_failed"
    /\ UNCHANGED << gen_attempt, gen_code, outside_gen >>

GenNext ==
    \/ GenReturns
    \/ GenEmptyReply
    \/ GenOracleError
    \/ SaveAgentCode

SpecGen == Init /\ [][GenNext]_vars

(***************************************************************************)
(* Properties of generate_agent_code                                       *)
(***************************************************************************)
GenError(i, kind) ==
    gen_log[i].op = "oracle" /\ gen_log[i].res = kind

----------------------------------------------------------------------------
\* Lines 93-110 seen from the target tree.

\* The files of the target tree named like the last component of path.
SameBasename(f, path) ==
    { q \in DOMAIN f : Under(TargetPath, q) /\ q[Len(q)] = Basename(path) }

\* path names an existing file of the target tree.
ExistsUnderTarget(f, path) ==
    /\ Exists(f, Join(TARGET_DIR, path))
    /\ Under(TargetPath, Resolve(Join(TARGET_DIR, path)))

\* A top-down walk meets q before every other file of the set: no other file
\* of the set lies in a directory above the one of q.
FirstOfWalk(set, q) ==
    /\ q \in set
    /\ \A o \in set :
          LET od == SubSeq(o, 1, Len(o) - 1)
              qd == SubSeq(q, 1, Len(q) - 1)
          IN  od # qd => ~Under(od, q)

\* C11: once generate_fix has returned, if the path extracted from the
\* diagnostic text names no existing file of the target tree, then either
\* some file of the tree has its base name and the file selected (when one
\* is selected) is such a file, the first one a walk of the tree meets, or
\* no file of the tree has that base name and no file is selected, so that
\* nothing is written.
C11_WalkSelectsTreeFile ==
    LET found == ExtractPath(Diagnostic(test_result))
        same == SameBasename(fs, found.path)
    IN  (pc = "check" /\ found.found /\ ~ExistsUnderTarget(fs, found.path))
        => IF same # {}
           THEN /\ log[Len(log)] # Event("generate", "not_found")
                /\ file_path # None => FirstOfWalk(same, file_path)
           ELSE file_path = None

\* The part of C11 inside the tree: a partial path is replaced by the first
\* file of that name in the walk, and a name the tree lacks fails.
C11_WalkInsideTree ==
    LET found == ExtractPath(Diagnostic(test_result))
        same == SameBasename(fs, found.path)
    IN  (/\ pc = "check" /\ found.found
         /\ ~Exists(fs, Join(TARGET_DIR, found.path)))
        => IF same # {}
           THEN /\ log[Len(log)] # Event("generate", "not_found")
                /\ file_path # None => FirstOfWalk(same, file_path)
           ELSE /\ log[Len(log)] = Event("generate", "not_found")
                /\ file_path = None

C11_WalkReached ==
    /\ pc = "check"
    /\ Diagnostic(test_result) = DiagPartial
    /\ file_path = TargetPath \o << DirPkg, FileMod >>

----------------------------------------------------------------------------
(***************************************************************************)
(* The path extraction of lines 79-91 applied to bounded texts             *)
(***************************************************************************)
\* The pieces the diagnostic texts are made of, and how many a text has.
TextPieces ==
    { DotSlash, DotPyColon, << "m" >>, << "/" >>, << "\\" >>, << "\n" >>,
      << " " >>, << "." >> }
MaxPieces == 4

RECURSIVE Pieced(_, _)
Pieced(pieces, n) ==
    IF n = 0 THEN { << >> }
    ELSE LET shorter == Pieced(pieces, n - 1)
         IN  shorter \cup { t \o k : t \in shorter, k \in pieces }

DiagExample ==
    << ".", "/", "p", "k", "g", "/", "m", "o", "d", ".", "p", "y", ":",
       "4", "2", ":", " ", "A", "s", "s", "e", "r", "t", "i", "o", "n",
       "E", "r", "r", "o", "r" >>
ExamplePath ==
    << "p", "k", "g", "/", "m", "o", "d", ".", "p", "y" >>

DiagTexts ==
    Pieced(TextPieces, MaxPieces)
    \cup { DiagExample, DiagRel, DiagParent, DiagNoPath, DiagMissing,
           DiagAbsolute, DiagPartial, DiagBackup }

InitExtract ==
    /\ AgentInit /\ GenInit /\ WebIdle
    /\ text_pc = "extract"
    /\ text_in \in DiagTexts
    /\ text_out = << >>

\* Lines 79-91 on the text text_in.
ExtractFilePath ==
    /\ text_pc = "extract"
    /\ text_out' = ExtractPath(text_in)
    /\ text_pc' = "extracted"
    /\ UNCHANGED << text_in, outside_text >>

SpecExtract == InitExtract /\ [][ExtractFilePath]_vars

\* The substrings "./", anything, ".py:" of text, as pairs of the position
\* of "./" and the position of ".py:"; with oneLine, anything is without a
\* line break.
Relatives(text, oneLine) ==
    { ij \in (1..Len(text)) \X (1..Len(text)) :
        /\ StartsWithAt(text, DotSlash, ij[1])
        /\ ij[2] >= ij[1] + 2
        /\ StartsWithAt(text, DotPyColon, ij[2])
        /\ oneLine => \A k \in (ij[1] + 2)..(ij[2] - 1) : text[k] # "\n" }

\* The tokens of path-like characters followed by ".py:", as pairs of the
\* position of the token and the position of ".py:".
Tokens(text) ==
    { ik \in (1..Len(text)) \X (1..Len(text)) :
        /\ ik[2] > ik[1]
        /\ \A m \in ik[1]..(ik[2] - 1) : text[m] \in PathChars
        /\ StartsWithAt(text, DotPyColon, ik[2]) }

\* p is the first pair of the set: the leftmost start, then the nearest end.
First(set, p) ==
    /\ p \in set
    /\ \A o \in set : p[1] < o[1] \/ (p[1] = o[1] /\ p[2] <= o[2])

\* What the claim of C12 says of text, with anything read as given by
\* oneLine and the path read through convert.
Extracted(text, out, oneLine, convert(_)) ==
    LET rel == Relatives(text, oneLine)
        tok == Tokens(text)
    IN  IF rel # {}
        THEN \E p \in rel :
                /\ First(rel, p)
                /\ out = [found |-> TRUE,
                          path |-> convert(SubSeq(text, p[1] + 2, p[2] + 2))]
        ELSE IF tok # {}
        THEN \E p \in tok :
                /\ First(tok, p)
                /\ out = [found |-> TRUE,
                          path |-> convert(SubSeq(text, p[1], p[2] + 2))]
        ELSE ~out.found

Verbatim(s) == s
Slashed(s) == ReplaceChar(s, "\\", "/")

\* C12 as stated: the extraction returns the first substring "./", anything,
\* ".py:" of the text without its leading "./" and its final ":"; only when
\* there is none, the first token of path-like characters ending in ".py:";
\* and not-found when there is no such token either.
C12_FirstReferenceVerbatim ==
    text_pc = "extracted" => Extracted(text_in, text_out, FALSE, Verbatim)

\* C12 amended: as above, where anything stands for characters of one line
\* (no line break between "./" and ".py:"), and the backslashes of the
\* reference are returned as "/".
C12_FirstReferenceOnOneLine ==
    /\ text_pc = "extracted" => Extracted(text_in, text_out, TRUE, Slashed)
    /\ (text_pc = "extracted" /\ text_in = DiagExample)
          => text_out = [found |-> TRUE, path |-> ExamplePath]

\* The text "./", line break, "m.py:" has been processed: the ".py:" is on
\* a later line than the "./", and the token m.py is what is returned.
C12_Witness ==
    /\ text_pc = "extracted"
    /\ text_in = DotSlash \o << "\n" >> \o << "m" >> \o DotPyColon
    /\ text_out = [found |-> TRUE, path |-> << "m", ".", "p", "y" >>]

----------------------------------------------------------------------------
(***************************************************************************)
(* The cleaning of the reply of line 142 applied to bounded replies        *)
(***************************************************************************)
\* The pieces the replies are made of.
ReplyPieces ==
    { << BT >>, Fence, FencePython, << "p", "y", "t", "h", "o", "n" >>,
      << "x" >>, << "\n" >>, << " " >> }

\* A fenced block: an opening marker on a line of its own, the code, a
\* closing marker on a line of its own.
Block(open, code) == open \o << "\n" >> \o code \o << "\n" >> \o Fence

ReplyExample ==
    << BT, BT, BT, "p", "y", "t", "h", "o", "n", "\n",
       "p", "r", "i", "n", "t", "(", "1", ")", "\n", BT, BT, BT >>

ReplyTexts ==
    Pieced(ReplyPieces, MaxPieces)
    \cup { Block(open, code) : open \in { Fence, FencePython },
                               code \in Pieced(ReplyPieces, MaxPieces) }
    \cup OracleReplies \cup { ReplyExample }

InitFences ==
    /\ AgentInit /\ GenInit /\ WebIdle
    /\ text_pc = "clean"
    /\ text_in \in ReplyTexts
    /\ text_out = << >>

\* Line 142 on the reply text_in.
CleanReply ==
    /\ text_pc = "clean"
    /\ text_out' = StripFences(text_in)
    /\ text_pc' = "cleaned"
    /\ UNCHANGED << text_in, outside_text >>

SpecFences == InitFences /\ [][CleanReply]_vars

Occurs(pat, s) == \E i \in 1..Len(s) : StartsWithAt(s, pat, i)

\* out is code without the whitespace before its first and after its last
\* character that is not whitespace.
IsTrimOf(out, code) ==
    IF \A k \in 1..Len(code) : code[k] \in Whitespace THEN out = << >>
    ELSE \E a, b \in 1..Len(code) :
            /\ code[a] \notin Whitespace /\ code[b] \notin Whitespace
            /\ \A k \in 1..(a - 1) : code[k] \in Whitespace
            /\ \A k \in (b + 1)..Len(code) : code[k] \in Whitespace
            /\ out = SubSeq(code, a, b)

----------------------------------------------------------------------------
\* The order of the steps of main(), read from the history log.

Before(j, i, op, res) ==
    /\ j < i
    /\ log[j] = [op |-> op, attempt |-> log[i].attempt, res |-> res]

CountIn(op, k) ==
    Cardinality({ i \in DOMAIN log : log[i].op = op /\ log[i].attempt = k })

\* C14: the steps of the attempts never overlap (the attempt numbers of the
\* log never decrease); every oracle call comes after a failed test run of
\* its attempt; every write comes after an oracle reply of its attempt that
\* gave non-empty content; an attempt has at most one test run, one oracle
\* call and one write; and the test run of attempt k+1 comes after the
\* completed write of attempt k.
C14_StepsInOrder ==
    /\ \A i, j \in DOMAIN log : i < j => log[i].attempt <= log[j].attempt
    /\ \A i \in DOMAIN log :
          /\ log[i].op = "oracle"
                => \E j \in DOMAIN log : Before(j, i, "test", "fail")
          /\ log[i].op = "write"
                => \E j, k \in DOMAIN log :
                      /\ Before(j, i, "oracle", "reply")
                      /\ Before(k, i, "generate", "ok")
                      /\ j < k
          /\ (log[i].op = "test" /\ log[i].attempt > 1)
                => \E j \in 1..(i - 1) :
                      log[j] = [op |-> "write", attempt |-> log[i].attempt - 1,
                                res |-> "ok"]
    /\ \A k \in 1..MAX_ATTEMPTS :
          /\ CountIn("oracle", k) <= 1
          /\ CountIn("write", k) <= 1
          /\ CountIn("test", k) <= 1
    /\ \A i \in DOMAIN fixes : fixes[i].text # << >>
    /\ Len(fixes) = Cardinality({ i \in DOMAIN log :
                                    log[i].op = "write" /\ log[i].res = "ok" })

\* Three attempts have run their steps: test run, oracle call, write.
C14_Witness ==
    /\ pc = "done"
    /\ CountIn("test", MAX_ATTEMPTS) = 1
    /\ CountIn("oracle", MAX_ATTEMPTS) = 1
    /\ CountIn("write", MAX_ATTEMPTS) = 1
    /\ CountIn("write", MAX_ATTEMPTS - 1) = 1

\* C15: a fix written in the final attempt is followed by the restore of
\* that attempt and by no test run; when that restore has not failed the
\* file written no longer holds the fix; and a run that ends with the tests
\* passing has written at most MAX_ATTEMPTS - 1 fixes.
C15_FinalFixUndone ==
    /\ \A i \in DOMAIN log :
          log[i] = [op |-> "write", attempt |-> MAX_ATTEMPTS, res |-> "ok"]
             => /\ \A j \in (i + 1)..Len(log) : log[j].op # "test"
                /\ i < Len(log) => log[i + 1].op = "restore"
                /\ (i < Len(log) /\ log[i + 1].res = "ok")
                      => fs[fixes[Len(fixes)].path] # fixes[Len(fixes)].text
    /\ Has("test", "pass") => Len(fixes) <= MAX_ATTEMPTS - 1

\* C16: every file that apply_fix is given to overwrite, and every file it
\* has overwritten, lies inside the target project directory; and when a
\* run has ended with a restore that did not fail, no file holds a fix.
C16_WritesStayInTarget ==
    /\ (pc = "check" /\ ~FixMissing) => Under(TargetPath, file_path)
    /\ \A i \in DOMAIN fixes : Under(TargetPath, fixes[i].path)
    /\ (pc = "done" /\ Has("restore", "ok"))
          => \A i \in DOMAIN fixes : fs[fixes[i].path] # fixes[i].text

----------------------------------------------------------------------------
\* The outcomes of generate_agent_code and what main() saves.

OracleCalls == { i \in DOMAIN gen_log : gen_log[i].op = "oracle" }

\* C17: generate_agent_code calls the oracle at most GEN_ATTEMPTS times; it
\* ends either by returning code that is not empty, made from the last
\* reply, or by sys.exit(1) after GEN_ATTEMPTS calls of which none gave
\* code, and in no other way; the agent file is saved only with returned
\* code that is not empty, and is never touched when the function exited.
C17_CodeOrExit ==
    /\ Cardinality(OracleCalls) <= GEN_ATTEMPTS
    /\ gen_pc \in { "call", "returned", "exited", "saved", "save_failed" }
    /\ \A i \in OracleCalls :
          gen_log[i].res = "code" => gen_pc # "call" /\ gen_pc # "exited"
    /\ gen_pc \in { "returned", "saved", "save_failed" }
          => /\ gen_code # None
             /\ \E i \in OracleCalls :
                   /\ gen_log[i].res = "code"
                   /\ \A j \in OracleCalls : j <= i
    /\ gen_pc = "exited"
          => /\ Cardinality(OracleCalls) = GEN_ATTEMPTS
             /\ \A i \in OracleCalls : gen_log[i].res # "code"
             /\ ~agent_file.exists
    /\ gen_pc = "call" => ~agent_file.exists
    /\ \A i \in DOMAIN gen_log :
          gen_log[i].op = "save" => i = Len(gen_log) /\ gen_code # None
    /\ gen_pc = "saved"
          => agent_file = [exists |-> TRUE, text |-> gen_code]

\* The file has been saved with the code of the third reply, after two
\* attempts that failed, one by an empty reply and one by an error.
C17_Witness ==
    /\ gen_pc = "saved"
    /\ gen_attempt = GEN_ATTEMPTS - 1
    /\ agent_file.text = << "f", "3" >>
    /\ \E i, j \in OracleCalls :
          gen_log[i].res = "empty" /\ gen_log[j].res = "api_error"

----------------------------------------------------------------------------
(***************************************************************************)
(* app.py: one POST request to /api/correct                                *)
(***************************************************************************)
Codes == { "c1", "c2" }
Prompts == { "p1", "p2" }
Texts == { "t1", "t2" }

JsonObjects ==
    { Json("object", keys, Cardinality(keys), code, prompt) :
        keys \in SUBSET { "code", "prompt", "lang" },
        code \in Codes \cup { "" }, prompt \in Prompts \cup { "" } }

\* The JSON values of the request bodies: null, objects with and without
\* the two keys, the arrays [] and ["code", "prompt"], the strings "" and
\* "code prompt", the numbers 0 and 5.
JsonValues ==
    { JsonNull }
    \cup { o \in JsonObjects :
             /\ o.code = "" <=> "code" \notin o.members
             /\ o.prompt = "" <=> "prompt" \notin o.members }
    \cup { Json("array", {}, 0, "", ""),
           Json("array", { "code", "prompt" }, 2, "", ""),
           Json("string", {}, 0, "", ""),
           Json("string", { "code", "prompt" }, 11, "", ""),
           Json("number", {}, 0, "", ""),
           Json("number", {}, 1, "", "") }

\* The requests: a body not declared as JSON, a JSON body that is empty or
\* cannot be decoded, or a JSON value.
Requests ==
    { [kind |-> k, value |-> JsonNull] :
        k \in { "not_json", "empty", "malformed" } }
    \cup { [kind |-> "json", value |-> v] : v \in JsonValues }

InitWeb ==
    /\ AgentInit /\ GenInit /\ TextIdle
    /\ web_pc = "read"
    /\ request \in Requests
    /\ data = JsonNull
    /\ response = ""
    /\ answer = NoAnswer
    /\ oracle_calls = 0

\* Line 29: the answer to an invalid payload.
Invalid == [status |-> 400, kind |-> "error", text |-> "invalid"]

\* Lines 52-58: the answers of the two except clauses.
Failed(e) ==
    [status |-> 500, kind |-> "error",
     text |-> IF e = "GoogleAPIError" THEN "api" ELSE "unexpected"]

\* Line 27: what request.json does with the request: it returns the
\* decoded value, or raises an HTTP exception.  A JSON body that is empty or
\* cannot be decoded raises BadRequest.  A body not declared as JSON gives
\* None or raises, depending on the version of the web framework.
JsonOutcomes(req) ==
    IF req.kind = "json" THEN { [raises |-> FALSE, value |-> req.value] }
    ELSE IF req.kind = "not_json"
    THEN { [raises |-> FALSE, value |-> JsonNull],
           [raises |-> TRUE, value |-> JsonNull] }
    ELSE { [raises |-> TRUE, value |-> JsonNull] }

\* Line 27, inside the try of line 26: an exception of request.json is an
\* Exception, and the clause of lines 56-58 answers it.
ReadJson ==
    /\ web_pc = "read"
    /\ \E o \in JsonOutcomes(request) :
          IF o.raises
          THEN /\ web_pc' = "answered"
               /\ answer' = Failed("HTTPException")
               /\ UNCHANGED data
          ELSE web_pc' = "validate" /\ data' = o.value /\ UNCHANGED answer
    /\ UNCHANGED << request, response, oracle_calls, outside_web >>

\* not data
Falsy(d) == d.t = "null" \/ d.len = 0

\* Lines 28-29: "in" raises TypeError on a number.
Validate ==
    /\ web_pc = "validate"
    /\ IF Falsy(data)
       THEN web_pc' = "answered" /\ answer' = Invalid
       ELSE IF data.t = "number"
       THEN web_pc' = "answered" /\ answer' = Failed("TypeError")
       ELSE IF "code" \notin data.members \/ "prompt" \notin data.members
       THEN web_pc' = "answered" /\ answer' = Invalid
       ELSE web_pc' = "call" /\ UNCHANGED answer
    /\ UNCHANGED << request, data, response, oracle_calls, outside_web >>

\* Lines 31-47: data.get raises AttributeError unless data is an object;
\* the model is built, which can raise; generate_content is called, and
\* returns or raises.
CallOracle ==
    /\ web_pc = "call"
    /\ IF data.t # "object"
       THEN /\ web_pc' = "answered"
            /\ answer' = Failed("AttributeError")
            /\ UNCHANGED << response, oracle_calls >>
       ELSE \E o \in { "model_error", "GoogleAPIError", "Exception" }
                        \cup Texts :
               IF o = "model_error"
               THEN /\ web_pc' = "answered"
                    /\ answer' = Failed("Exception")
                    /\ UNCHANGED << response, oracle_calls >>
               ELSE /\ oracle_calls' = oracle_calls + 1
                    /\ IF o \in Texts
                       THEN /\ web_pc' = "reply"
                            /\ response' = o
                            /\ UNCHANGED answer
                       ELSE /\ web_pc' = "answered"
                            /\ answer' = Failed(o)
                            /\ UNCHANGED response
    /\ UNCHANGED << request, data, outside_web >>

\* Line 49: response.text, which raises ValueError when the reply holds no
\* text, and the answer with status 200.
Reply ==
    /\ web_pc = "reply"
    /\ \E has_text \in BOOLEAN :
          answer' = IF has_text
                    THEN [status |-> 200, kind |-> "corrected_code",
                          text |-> response]
                    ELSE Failed("ValueError")
    /\ web_pc' = "answered"
    /\ UNCHANGED << request, data, response, oracle_calls, outside_web >>

WebNext ==
    \/ ReadJson
    \/ Validate
    \/ CallOracle
    \/ Reply

SpecWeb == InitWeb /\ [][WebNext]_vars

\* The request has no JSON body.
BodyMissing == request.kind \in { "not_json", "empty" }

\* The request has a JSON body without the key code or without the key
\* prompt.
KeyMissing ==
    /\ request.kind = "json"
    /\ \/ request.value.t # "object"
       \/ "code" \notin request.value.members
       \/ "prompt" \notin request.value.members

\* C18: a request with no JSON body, or with one that lacks the key code or
\* the key prompt, is answered with status 400 and no oracle call; a request
\* for which the oracle was called is answered with status 200 and the
\* oracle's text, or with status 500 and an error message; and every request
\* is answered.
C18_HandlerAnswers ==
    /\ web_pc \in { "idle", "read", "validate", "call", "reply", "answered" }
    /\ (web_pc = "answered" /\ (BodyMissing \/ KeyMissing))
          => answer.status = 400 /\ oracle_calls = 0
    /\ (web_pc = "answered" /\ oracle_calls > 0)
          => \/ answer = [status |-> 200, kind |-> "corrected_code",
                          text |-> response] /\ response \in Texts
             \/ answer.status = 500 /\ answer.kind = "error"
====
